---- MODULE Spec2Model ----
(***************************************************************************)
(* The tool engine of src/src/tools/tools.ts: each tool's `use` handler    *)
(* as an atomic action on a working raster surface, an original surface,   *)
(* the interaction's point sequence and the drawing configuration.         *)
(*                                                                         *)
(* Every handler is synchronous and single-threaded, so one action is one  *)
(* complete call of `use`.  A pointer event appends its point to the       *)
(* interaction's sequence and dispatches the tool with the grown sequence. *)
(*                                                                         *)
(* Surfaces hold fully transparent and fully opaque pixels, and the        *)
(* configured colours are opaque, so a fill replaces the pixels it covers. *)
(* utils/canvas and utils/colors lie outside the sources: erasePixel,      *)
(* paintPixel and getPixelColor are modelled by what their callers need,   *)
(* and drawLine by the segment it is asked to draw, not its rasterisation. *)
(***************************************************************************)
EXTENDS Integers, Sequences, FiniteSets

(* ------------------------------ bounds --------------------------------- *)
\* width and height of the raster surfaces
W == 3
H == 2
\* number of opaque colours the drawing configuration ranges over
MaxColor == 2
\* largest brush size
MaxBrush == 2
\* longest point sequence of a Move or Line drag
MaxDrag == 3
\* longest point sequence of the other tools' interactions
MaxPoints == 2
\* pointer coordinates of the shape tools range over -Reach..Reach
Reach == 2

(* ------------------------------ colours -------------------------------- *)
\* a pixel is its four channel bytes <<r, g, b, a>>, as in ImageData
Transparent == <<0, 0, 0, 0>>

\* the k-th opaque colour; its channels need one and two hex digits
Opaque(k) == <<255, (10 * k) % 256, k % 256, 255>>

HexChars == <<"0", "1", "2", "3", "4", "5", "6", "7",
              "8", "9", "a", "b", "c", "d", "e", "f">>

\* Number.prototype.toString(16) of a byte
ToString16(i) ==
  IF i < 16 THEN <<HexChars[i + 1]>>
            ELSE <<HexChars[(i \div 16) + 1], HexChars[(i % 16) + 1]>>

\* a faulty variant: padding dropped
PadStartNone(s) == s

\* String.prototype.padStart(2, "0")
PadStart2(s) == IF Len(s) < 2 THEN <<"0">> \o s ELSE s

\* [r, g, b, a].map(i => i.toString(16).padStart(2, "0")).join("")
HexOfPixel(px) ==
  PadStart2(ToString16(px[1])) \o PadStart2(ToString16(px[2])) \o
  PadStart2(ToString16(px[3])) \o PadStart2(ToString16(px[4]))

\* `#${color}`
HashColor(color) == <<"#">> \o color

HexValue(c) == CHOOSE d \in 0..15 : HexChars[d + 1] = c

\* the canvas reading a "#rrggbbaa" fillStyle back into channel bytes
ParseColor(s) ==
  << 16 * HexValue(s[2]) + HexValue(s[3]), 16 * HexValue(s[4]) + HexValue(s[5]),
     16 * HexValue(s[6]) + HexValue(s[7]), 16 * HexValue(s[8]) + HexValue(s[9]) >>

\* the colours the drawing configuration holds: opaque, as "#rrggbbaa"
ConfigColors == { HashColor(HexOfPixel(Opaque(k))) : k \in 1..MaxColor }

(* ------------------------------ surfaces ------------------------------- *)
Pixels == (0..(W - 1)) \X (0..(H - 1))

Point(px, py) == [x |-> px, y |-> py]

\* points on the surface, and pointer positions one pixel around it
CanvasPoints == { Point(px, py) : px \in 0..(W - 1), py \in 0..(H - 1) }
PointerPoints == { Point(px, py) : px \in (-1)..W, py \in (-1)..H }
ShapePoints == { Point(px, py) : px \in (-Reach)..Reach, py \in (-Reach)..Reach }

\* a surface whose pixels all differ, the first one transparent
Numbered == [ px \in Pixels |->
               IF px[2] * W + px[1] = 0 THEN Transparent
                                        ELSE Opaque(px[2] * W + px[1]) ]

\* the surfaces of transparent and one-colour pixels
TwoTone == [ Pixels -> {Transparent, Opaque(1)} ]

VARIABLES
  working,      \* the working surface: pixel -> channel bytes
  original,     \* the original (pre-interaction) surface
  points,       \* the interaction's point sequence, as last passed to `use`
  fgColor,      \* toolbox state: foreground colour, "#rrggbbaa"
  bgColor,      \* toolbox state: background colour
  brushSize,    \* toolbox state: brush size
  fill,         \* how the latest flood fill ended: "idle", "returned", "RangeError"
  paints,       \* paintPixel calls of the latest flood fill, per pixel
  segments,     \* the segments handed to drawLine in this interaction
  prevOriginal, \* the original surface of the previous interaction, or None
  prevOffset    \* the displacement of the pointer over the previous interaction

vars == <<working, original, points, fgColor, bgColor, brushSize,
          fill, paints, segments, prevOriginal, prevOffset>>

\* an absent value: an argument left out, no previous interaction
None == <<>>

NoPaints == [ px \in Pixels |-> 0 ]
NoOffset == Point(0, 0)

\* the first colour of the configuration
FirstColor == HashColor(HexOfPixel(Opaque(1)))

\* the start of an interaction, the surfaces and the configuration left open
InitRest ==
  /\ points = <<>>
  /\ fill = "idle"
  /\ paints = NoPaints
  /\ segments = <<>>
  /\ prevOriginal = None
  /\ prevOffset = NoOffset

Last(s) == s[Len(s)]

(* ------------------------------ canvas 2D ------------------------------ *)
\* the pixels of fillRect(x, y, w, h) / clearRect(x, y, w, h); a negative
\* width or height extends the rectangle in the negative direction
InRect(px, x, y, w, h) ==
  /\ IF w >= 0 THEN x <= px[1] /\ px[1] < x + w ELSE x + w <= px[1] /\ px[1] < x
  /\ IF h >= 0 THEN y <= px[2] /\ px[2] < y + h ELSE y + h <= px[2] /\ px[2] < y

\* ctx.fillRect with an opaque fillStyle: the pixels of the rectangle that
\* lie on the surface take the colour
FillRect(surface, style, x, y, w, h) ==
  LET color == ParseColor(style)
  IN [ px \in Pixels |-> IF InRect(px, x, y, w, h) THEN color ELSE surface[px] ]

\* ctx.clearRect
ClearRect(surface, x, y, w, h) ==
  [ px \in Pixels |-> IF InRect(px, x, y, w, h) THEN Transparent ELSE surface[px] ]

(* ------------------------------ Bucket --------------------------------- *)
\* frames the engine's call stack holds before it throws a RangeError; a
\* fill that paints every pixel once is W * H + 1 calls deep at most
StackLimit == 2 * W * H

Px(point) == <<point.x, point.y>>

InCanvas(point) ==
  point.x >= 0 /\ point.x < W /\ point.y >= 0 /\ point.y < H

\* utils/colors getPixelColor: the colour of the pixel at the point
GetPixelColor(point, ctx) == ctx.surface[Px(point)]

\* utils/canvas erasePixel: the pixel cleared
ErasePixel(point, ctx) ==
  [ctx EXCEPT !.surface = ClearRect(@, point.x, point.y, 1, 1)]

\* utils/canvas paintPixel: the pixel filled with the context's fillStyle
PaintPixel(point, ctx) ==
  [ctx EXCEPT !.surface = FillRect(@, ctx.style, point.x, point.y, 1, 1),
              !.paints[Px(point)] = @ + 1]

\* a faulty variant: a pixel of another colour no longer stops the fill
StopsNever(color, searchColor) == searchColor # None /\ FALSE

\* if (searchColor && !color.isEqual(searchColor)) return
Stops(color, searchColor) == searchColor # None /\ color # searchColor

\* a faulty variant: the fourth call repeats the third
NeighbourNoDown(point, k) ==
  CASE k = 1 -> [point EXCEPT !.x = point.x - 1]
    [] k = 2 -> [point EXCEPT !.x = point.x + 1]
    [] k = 3 -> [point EXCEPT !.y = point.y - 1]
    [] k = 4 -> [point EXCEPT !.y = point.y - 1]

\* the point of the k-th recursive call
Neighbour(point, k) ==
  CASE k = 1 -> [point EXCEPT !.x = point.x - 1]
    [] k = 2 -> [point EXCEPT !.x = point.x + 1]
    [] k = 3 -> [point EXCEPT !.y = point.y - 1]
    [] k = 4 -> [point EXCEPT !.y = point.y + 1]

\* floodFill(ctx, point, searchColor), `depth` frames deep; a call the stack
\* has no room for throws, and the throw unwinds every caller
RECURSIVE FloodFill(_, _, _, _)
FloodFill(ctx, point, searchColor, depth) ==
  IF ctx.thrown THEN ctx
  ELSE IF depth > StackLimit THEN [ctx EXCEPT !.thrown = TRUE]
  ELSE IF ~InCanvas(point) THEN ctx
  ELSE LET color == GetPixelColor(point, ctx)
       IN IF Stops(color, searchColor) THEN ctx
          ELSE LET c0 == PaintPixel(point, ErasePixel(point, ctx))
                   c1 == FloodFill(c0, Neighbour(point, 1), color, depth + 1)
                   c2 == FloodFill(c1, Neighbour(point, 2), color, depth + 1)
                   c3 == FloodFill(c2, Neighbour(point, 3), color, depth + 1)
               IN FloodFill(c3, Neighbour(point, 4), color, depth + 1)

\* Bucket.use on the click at p
BucketUse(p) ==
  /\ fill = "idle"
  /\ LET pts == Append(points, p)
         ctx == [surface |-> working, style |-> fgColor,
                 paints |-> NoPaints, thrown |-> FALSE]
         lastPoint == Last(pts)
     IN \E out \in {FloodFill(ctx, lastPoint, None, 1)} :
          /\ points' = pts
          /\ working' = out.surface
          /\ paints' = out.paints
          /\ fill' = IF out.thrown THEN "RangeError" ELSE "returned"
  /\ UNCHANGED <<original, fgColor, bgColor, brushSize, segments,
                 prevOriginal, prevOffset>>

InitFill ==
  /\ working \in TwoTone
  /\ original = working
  /\ fgColor \in ConfigColors
  /\ bgColor = FirstColor
  /\ brushSize = 1
  /\ InitRest

NextFill == \E p \in PointerPoints : BucketUse(p)

SpecFill == InitFill /\ [][NextFill]_vars

(* ------------------------------- Move ---------------------------------- *)
\* a faulty variant: the vertical offset taken from the horizontal coordinates
NetOffsetXOnly(pts) ==
  Point(Last(pts).x - pts[1].x, Last(pts).x - pts[1].x)

\* xOffset and yOffset: last point minus first point
NetOffset(pts) ==
  Point(Last(pts).x - pts[1].x, Last(pts).y - pts[1].y)

\* a faulty variant: nothing cleared
ClearAllNot(surface) == surface

\* ctx.clearRect(0, 0, workingCanvas.width, workingCanvas.height)
ClearAll(surface) == ClearRect(surface, 0, 0, W, H)

\* ctx.translate(dx, dy); ctx.drawImage(image, 0, 0); ctx.resetTransform():
\* the image composited source-over, dx to the right and dy down
DrawImage(surface, image, dx, dy) ==
  [ px \in Pixels |->
      LET from == <<px[1] - dx, px[2] - dy>>
      IN IF from \in Pixels /\ image[from] # Transparent THEN image[from]
                                                          ELSE surface[px] ]

\* Move.use on the pointer event at p
MoveUse(p) ==
  /\ Len(points) < MaxDrag
  /\ LET pts == Append(points, p)
         offset == NetOffset(pts)
     IN /\ points' = pts
        /\ working' = DrawImage(ClearAll(working), original, offset.x, offset.y)
  /\ UNCHANGED <<original, fgColor, bgColor, brushSize, fill, paints,
                 segments, prevOriginal, prevOffset>>

\* the pointer released: the moved surface is the next interaction's original
EndMove ==
  /\ points # <<>>
  /\ prevOriginal = None
  /\ prevOriginal' = original
  /\ prevOffset' = Point(Last(points).x - points[1].x, Last(points).y - points[1].y)
  /\ original' = working
  /\ points' = <<>>
  /\ UNCHANGED <<working, fgColor, bgColor, brushSize, fill, paints, segments>>

InitMove ==
  /\ original = Numbered
  /\ working = original
  /\ fgColor = FirstColor
  /\ bgColor = FirstColor
  /\ brushSize = 1
  /\ InitRest

NextMove == (\E p \in CanvasPoints : MoveUse(p)) \/ EndMove

SpecMove == InitMove /\ [][NextMove]_vars

(* ------------------------------- Line ---------------------------------- *)
Max(a, b) == IF a >= b THEN a ELSE b
Min(a, b) == IF a <= b THEN a ELSE b

\* utils/canvas drawLine: the segment it is asked to rasterise
DrawLine(from, to, color, size) ==
  [from |-> from, to |-> to, color |-> color, size |-> size]

\* Line.use on the pointer event at p; points[i] of the code is pts[i + 1]
LineUse(p) ==
  /\ Len(points) < MaxDrag
  /\ LET pts == Append(points, p)
         first == IF Len(pts) > 1 THEN 1 ELSE 0
         second == Max(0, Len(pts) - 2)
     IN /\ points' = pts
        /\ segments' = Append(segments,
                              DrawLine(pts[first + 1], pts[second + 1], fgColor, brushSize))
  /\ UNCHANGED <<working, original, fgColor, bgColor, brushSize, fill, paints,
                 prevOriginal, prevOffset>>

InitLine ==
  /\ original = Numbered
  /\ working = original
  /\ fgColor \in ConfigColors
  /\ bgColor = FirstColor
  /\ brushSize \in 1..MaxBrush
  /\ InitRest

NextLine == \E p \in CanvasPoints : LineUse(p)

SpecLine == InitLine /\ [][NextLine]_vars

(* ----------------------------- Rectangle ------------------------------- *)
MinOf(S) == CHOOSE m \in S : \A v \in S : m <= v
MaxOf(S) == CHOOSE m \in S : \A v \in S : m >= v

\* a faulty variant: the box not widened by the brush
GetBoundingBoxNoBrush(pts, size) ==
  LET startPoint == pts[1]
      endPoint == Last(pts)
  IN [start |-> Point(Min(startPoint.x, endPoint.x), Min(startPoint.y, endPoint.y)),
      end |-> Point(Max(startPoint.x, endPoint.x), Max(startPoint.y, endPoint.y))]

GetBoundingBoxIncludingBrush(pts, size) ==
  LET startPoint == pts[1]
      endPoint == Last(pts)
      xValues == {startPoint.x, startPoint.x - size + 1, endPoint.x, endPoint.x - size + 1}
      yValues == {startPoint.y, startPoint.y - size + 1, endPoint.y, endPoint.y - size + 1}
  IN [start |-> Point(MinOf(xValues), MinOf(yValues)),
      end |-> Point(MaxOf(xValues), MaxOf(yValues))]

\* Rectangle.use on the pointer event at p
RectangleUse(p) ==
  /\ Len(points) < MaxPoints
  /\ LET pts == Append(points, p)
         box == GetBoundingBoxIncludingBrush(pts, brushSize)
         start == box.start
         end == box.end
         width == end.x - start.x + 1
         height == end.y - start.y + 1
         s0 == FillRect(working, bgColor, start.x, start.y, width, height)
         s1 == FillRect(s0, fgColor, start.x, start.y, width, brushSize)
         s2 == FillRect(s1, fgColor, end.x + 1, end.y + 1, -width, -brushSize)
         s3 == FillRect(s2, fgColor, start.x, start.y, brushSize, height)
     IN /\ points' = pts
        /\ working' = FillRect(s3, fgColor, end.x + 1, end.y + 1, -brushSize, -height)
  /\ UNCHANGED <<original, fgColor, bgColor, brushSize, fill, paints,
                 segments, prevOriginal, prevOffset>>

\* the last colour of the configuration
LastColor == HashColor(HexOfPixel(Opaque(MaxColor)))

InitShape ==
  /\ original = Numbered
  /\ working = original
  /\ fgColor = FirstColor
  /\ bgColor = LastColor
  /\ brushSize \in 1..MaxBrush
  /\ InitRest

NextRectangle == \E p \in ShapePoints : RectangleUse(p)

SpecRectangle == InitShape /\ [][NextRectangle]_vars

(* ------------------------------ Ellipse -------------------------------- *)
GetBoundingBox(pts) ==
  LET startPoint == pts[1]
      endPoint == Last(pts)
      xValues == {startPoint.x, startPoint.x, endPoint.x, endPoint.x}
      yValues == {startPoint.y, startPoint.y, endPoint.y, endPoint.y}
  IN [x0 |-> MinOf(xValues), y0 |-> MinOf(yValues),
      x1 |-> MaxOf(xValues), y1 |-> MaxOf(yValues)]

\* Math.round(s / 2): halves round towards +Infinity
RoundHalf(s) == (s + 1) \div 2

\* JavaScript's a % 2: the result has the sign of a
Rem2(a) == IF a >= 0 THEN a % 2 ELSE -((-a) % 2)

Sign(v) == IF v > 0 THEN 1 ELSE IF v < 0 THEN -1 ELSE 0

\* For a quadrant offset (x, y) with n = x*x + y*y > 0 and semi-axes a, b:
\* angle = atan(y / x), cos(angle)^2 = x*x / n, sin(angle)^2 = y*y / n, so
\*   (a*b) / sqrt(b*b*cos^2 + a*a*sin^2) + 0.5  =  P * sqrt(n) / sqrt(D) + 1/2
\* with P = a*b and D = b*b*x*x + a*a*y*y.  For D > 0, Beyond is the sign of
\* r minus that bound, r = sqrt(n): the sign of 2*sqrt(n)*(sqrt(D) - P) - sqrt(D),
\* which is negative when D <= P*P and otherwise the sign of A*A - B*B*D for
\* A = 4*n*(D + P*P) - D and B = 8*n*P.
Beyond(n, D, P) ==
  IF D <= P * P THEN -1
  ELSE LET A == 4 * n * (D + P * P) - D
           B == 8 * n * P
       IN Sign(A * A - B * B * D)

\* r < (rX*rY) / sqrt(...) + 0.5.  At x = y = 0 the angle is atan(0/0) = NaN,
\* and with D = 0 the bound is 0/0 = NaN or 0 + 0.5 below r >= 1: false each time
InsideOuter(x, y, rX, rY) ==
  LET n == x * x + y * y
      D == rY * rY * x * x + rX * rX * y * y
  IN n > 0 /\ D > 0 /\ Beyond(n, D, rX * rY) < 0

\* r > (iX*iY) / sqrt(...) + 0.5, evaluated with iX >= 1 and iY >= 1 only
OutsideInner(x, y, iX, iY) ==
  LET n == x * x + y * y
      D == iY * iY * x * x + iX * iX * y * y
  IN n > 0 /\ Beyond(n, D, iX * iY) > 0

\* the pixels one call of ellipse(points, brushSize, ctx, fill) hands to fillRect
EllipsePixels(pts, size, isFill) ==
  LET coords == GetBoundingBox(pts)
      xC == RoundHalf(coords.x0 + coords.x1)
      yC == RoundHalf(coords.y0 + coords.y1)
      evenX == Rem2(coords.x0 + coords.x1)
      evenY == Rem2(coords.y0 + coords.y1)
      rX == coords.x1 - xC
      rY == coords.y1 - yC
      iX == IF isFill THEN 0 ELSE Max(rX - size, 0)
      iY == IF isFill THEN 0 ELSE Max(rY - size, 0)
      hits == { q \in (0..rX) \X (0..rY) :
                  /\ \/ isFill
                     \/ rX <= size
                     \/ rY <= size
                     \/ OutsideInner(q[1], q[2], iX, iY)
                  /\ InsideOuter(q[1], q[2], rX, rY) }
  IN UNION { { <<xC + q[1], yC + q[2]>>,
               <<xC - q[1] - evenX, yC + q[2]>>,
               <<xC + q[1], yC - q[2] - evenY>>,
               <<xC - q[1] - evenX, yC - q[2] - evenY>> } : q \in hits }

\* ctx.fillRect(x, y, 1, 1) for every pixel of the set
FillPixels(surface, style, set) ==
  LET color == ParseColor(style)
  IN [ px \in Pixels |-> IF px \in set THEN color ELSE surface[px] ]

\* Ellipse.use on the pointer event at p
EllipseUse(p) ==
  /\ Len(points) < MaxPoints
  /\ LET pts == Append(points, p)
         filled == FillPixels(working, bgColor, EllipsePixels(pts, brushSize, TRUE))
     IN /\ points' = pts
        /\ working' = FillPixels(filled, fgColor, EllipsePixels(pts, brushSize, FALSE))
  /\ UNCHANGED <<original, fgColor, bgColor, brushSize, fill, paints,
                 segments, prevOriginal, prevOffset>>

NextEllipse == \E p \in ShapePoints : EllipseUse(p)

SpecEllipse == InitShape /\ [][NextEllipse]_vars

(* ----------------------------- Eyedropper ------------------------------ *)
\* ctx.getImageData(x, y, 1, 1).data: transparent black off the surface
GetImageData(surface, x, y) ==
  IF <<x, y>> \in Pixels THEN surface[<<x, y>>] ELSE Transparent

\* Eyedropper.use on the pointer event at p
EyedropperUse(p) ==
  /\ Len(points) < MaxPoints
  /\ LET pts == Append(points, p)
         lastPoint == Last(pts)
         color == HexOfPixel(GetImageData(working, lastPoint.x, lastPoint.y))
     IN /\ points' = pts
        /\ fgColor' = IF color = <<"0", "0", "0", "0", "0", "0", "0", "0">>
                      THEN fgColor
                      ELSE HashColor(color)
  /\ UNCHANGED <<working, original, bgColor, brushSize, fill, paints,
                 segments, prevOriginal, prevOffset>>

InitEyedropper ==
  /\ original = Numbered
  /\ working = original
  /\ fgColor \in ConfigColors
  /\ bgColor = FirstColor
  /\ brushSize = 1
  /\ InitRest

NextEyedropper == \E p \in PointerPoints : EyedropperUse(p)

SpecEyedropper == InitEyedropper /\ [][NextEyedropper]_vars

(* ------------------------------- claims -------------------------------- *)
\* the point the latest call of `use` ended on, and the foreground colour
\* as channel bytes
Seed == Last(points)
Foreground == ParseColor(fgColor)
Background == ParseColor(bgColor)

Adjacent(a, b) ==
  \/ a[1] = b[1] /\ (a[2] - b[2] = 1 \/ b[2] - a[2] = 1)
  \/ a[2] = b[2] /\ (a[1] - b[1] = 1 \/ b[1] - a[1] = 1)

RECURSIVE Grow(_, _, _)
Grow(surface, color, set) ==
  LET more == { px \in Pixels \ set :
                  surface[px] = color /\ \E q \in set : Adjacent(px, q) }
  IN IF more = {} THEN set ELSE Grow(surface, color, set \cup more)

\* the 4-connected region of the seed pixel's colour around the seed pixel
Region(surface, seed) == Grow(surface, surface[seed], {seed})

\* the fill started on a pixel of the surface whose colour is the foreground colour
SeedIsForeground == InCanvas(Seed) /\ original[Px(Seed)] = Foreground

\* C1: a flood fill seeded on a pixel of the surface whose colour S is not the
\* foreground colour F ends with exactly the 4-connected S-coloured region of
\* the seed repainted in F and every other pixel as it was.
C1_FillRepaintsExactlyTheRegion ==
  (fill = "returned" /\ InCanvas(Seed) /\ ~SeedIsForeground) =>
    LET region == Region(original, Px(Seed))
        color == Foreground
    IN working = [ px \in Pixels |-> IF px \in region THEN color ELSE original[px] ]

\* C1's case: a region of several pixels was filled, next to a pixel of another
\* colour, with a pixel of the seed's colour left out of reach
C1_Witness ==
  /\ fill = "returned" /\ InCanvas(Seed) /\ ~SeedIsForeground
  /\ Cardinality(Region(original, Px(Seed))) >= 2
  /\ \E px \in Pixels \ Region(original, Px(Seed)) :
       original[px] = original[Px(Seed)] /\ working[px] = original[px]
  /\ \E px \in Pixels : original[px] # original[Px(Seed)] /\ original[px] # Foreground
  /\ \A px \in Region(original, Px(Seed)) : working[px] = Foreground

\* C2: a flood fill of a region that already has the foreground colour, with
\* that colour, terminates and leaves every pixel's colour as it was.
C2_FillOfForegroundRegionTerminates ==
  (fill # "idle" /\ SeedIsForeground) => (fill = "returned" /\ working = original)

\* C8: when the foreground colour differs from the colour at the seed, the
\* fill terminates for every seed, on or off the surface (off it, nothing is
\* painted), and paints no pixel twice, so no more pixels than the seed's region has.
C8_FillTerminatesPaintingOnce ==
  (fill # "idle" /\ ~SeedIsForeground) =>
    /\ fill = "returned"
    /\ \A px \in Pixels : paints[px] <= 1
    /\ IF InCanvas(Seed)
       THEN { px \in Pixels : paints[px] > 0 } \subseteq Region(original, Px(Seed))
       ELSE paints = NoPaints /\ working = original

\* C8's case: a fill of a region of three pixels or more has returned
C8_Witness ==
  /\ fill = "returned" /\ InCanvas(Seed) /\ ~SeedIsForeground
  /\ Cardinality({ px \in Pixels : paints[px] = 1 }) >= 3
  /\ \E px \in Pixels : paints[px] = 0

\* C3: Line.use on n >= 2 points draws one segment, from the second point to
\* the last point; on one point it draws that point to itself.
C3_LineDrawsSecondToLast ==
  points # <<>> =>
    /\ Len(segments) = Len(points)
    /\ Last(segments).from = points[IF Len(points) >= 2 THEN 2 ELSE 1]
    /\ Last(segments).to = Last(points)

\* the pointer's displacement over a point sequence
Displacement(pts) == Point(Last(pts).x - pts[1].x, Last(pts).y - pts[1].y)

\* the surface moved by (dx, dy): what leaves the surface is lost, what enters is transparent
Shifted(surface, dx, dy) ==
  [ px \in Pixels |-> IF <<px[1] - dx, px[2] - dy>> \in Pixels
                      THEN surface[<<px[1] - dx, px[2] - dy>>]
                      ELSE Transparent ]

\* C4: a move by (dx, dy) and then, on the result as the new original, a move
\* by (-dx, -dy) gives back every pixel the first move kept on the surface;
\* the pixels the first move pushed off the surface come back transparent.
C4_MoveRoundTrip ==
  ( /\ prevOriginal # None
    /\ points # <<>>
    /\ Displacement(points).x = -prevOffset.x
    /\ Displacement(points).y = -prevOffset.y ) =>
    \A px \in Pixels :
      working[px] = IF <<px[1] + prevOffset.x, px[2] + prevOffset.y>> \in Pixels
                    THEN prevOriginal[px]
                    ELSE Transparent

\* C4's case: a move that clipped the surface was undone by the opposite move
C4_Witness ==
  /\ prevOriginal # None
  /\ points # <<>>
  /\ prevOffset.x # 0 /\ prevOffset.y # 0
  /\ Displacement(points).x = -prevOffset.x
  /\ Displacement(points).y = -prevOffset.y
  /\ \E px \in Pixels : working[px] = prevOriginal[px] /\ working[px] # Transparent
  /\ \E px \in Pixels : working[px] = Transparent /\ prevOriginal[px] # Transparent

\* C9: every call of Move.use leaves the original surface alone and makes the
\* working surface the original shifted by last point minus first point,
\* whatever the working surface held and whatever points lie in between.
C9_MoveRecomputesFromOriginal ==
  [][ Len(points') > Len(points) =>
        /\ original' = original
        /\ working' = Shifted(original, Displacement(points').x, Displacement(points').y)
        /\ (Last(points') = points'[1] => working' = original) ]_vars

\* C9's case: the pointer left its first point and came back to it
C9_Witness ==
  /\ Len(points) = 3
  /\ points[2] # points[1]
  /\ points[3] = points[1]
  /\ working = original

\* C5: Rectangle.use paints the box from (min x - (b-1), min y - (b-1)) to
\* (max x, max y) of the first and last point: foreground within b pixels of
\* an edge of the box, background elsewhere in it, nothing outside it.  For
\* the points (2,2), (10,10) and brush size 1 the box is x, y in 2..10.
C5_RectangleFrameAndInterior ==
  /\ GetBoundingBoxIncludingBrush(<<Point(2, 2), Point(10, 10)>>, 1)
       = [start |-> Point(2, 2), end |-> Point(10, 10)]
  /\ [][ Len(points') > Len(points) =>
          LET f == points'[1]
              l == Last(points')
              b == brushSize
              sx == Min(f.x, l.x) - (b - 1)
              sy == Min(f.y, l.y) - (b - 1)
              ex == Max(f.x, l.x)
              ey == Max(f.y, l.y)
              fg == Foreground
              bg == Background
          IN working' =
               [ px \in Pixels |->
                   IF sx <= px[1] /\ px[1] <= ex /\ sy <= px[2] /\ px[2] <= ey
                   THEN IF \/ px[1] - sx < b \/ ex - px[1] < b
                           \/ px[2] - sy < b \/ ey - px[2] < b
                        THEN fg
                        ELSE bg
                   ELSE working[px] ] ]_vars

\* C5's case: a rectangle whose frame, interior and outside all show on the surface
C5_Witness ==
  /\ Len(points) = 2
  /\ brushSize = 1
  /\ \E px \in Pixels : working[px] = Background
  /\ \E px \in Pixels : working[px] = Foreground
  /\ \E px \in Pixels :
       /\ px[1] > Max(points[1].x, points[2].x)
       /\ working[px] = original[px]
       /\ working[px] \notin {Foreground, Background}

\* C6: each pass of the ellipse paints a pixel set that mirrors onto itself
\* about both midlines of the bounding box x0..x1, y0..y1.
C6_EllipseSymmetric ==
  points # <<>> =>
    \A isFill \in BOOLEAN :
      LET box == GetBoundingBox(points)
          set == EllipsePixels(points, brushSize, isFill)
      IN \A px \in set :
           /\ <<box.x0 + box.x1 - px[1], px[2]>> \in set
           /\ <<px[1], box.y0 + box.y1 - px[2]>> \in set

\* C10: the fill pass of the ellipse paints the centre pixel (xC, yC) of the
\* bounding box, for every point sequence.
C10_EllipseFillPaintsCentre ==
  points # <<>> =>
    LET box == GetBoundingBox(points)
    IN <<RoundHalf(box.x0 + box.x1), RoundHalf(box.y0 + box.y1)>>
         \in EllipsePixels(points, brushSize, TRUE)

\* C7: Eyedropper.use changes no pixel; a sample with four zero channels
\* leaves the foreground colour alone, any other sample makes it "#rrggbbaa",
\* two hex digits a channel.
C7_EyedropperPicksHex ==
  [][ Len(points') > Len(points) =>
        LET lastPoint == Last(points')
            sample == IF InCanvas(lastPoint) THEN working[Px(lastPoint)] ELSE Transparent
        IN /\ working' = working
           /\ original' = original
           /\ bgColor' = bgColor /\ brushSize' = brushSize
           /\ IF sample = <<0, 0, 0, 0>>
              THEN fgColor' = fgColor
              ELSE /\ Len(fgColor') = 9
                   /\ fgColor'[1] = "#"
                   /\ \A c \in 1..4 :
                        /\ fgColor'[2 * c] = HexChars[(sample[c] \div 16) + 1]
                        /\ fgColor'[2 * c + 1] = HexChars[(sample[c] % 16) + 1] ]_vars

\* C7's case: a colour with a one-digit channel was picked off the surface
C7_Witness ==
  /\ points # <<>>
  /\ InCanvas(Seed)
  /\ working[Px(Seed)] # Transparent
  /\ fgColor \notin ConfigColors
  /\ fgColor[6] = "0"
  /\ Foreground = working[Px(Seed)]

====
